---- MODULE Spec2Model ----
(***************************************************************************)
(* A model of the alt manager API client (src/index.ts): the AltManager    *)
(* facade, the OfflinePlayer identities it hands out and the Player live   *)
(* sessions that subscribe to the shared socket and mirror the pushed      *)
(* live data.                                                              *)
(*                                                                         *)
(* JavaScript runs every listener and every stretch of code between two    *)
(* awaits to completion, so each action below is one such stretch.         *)
(***************************************************************************)
EXTENDS Integers, Sequences, FiniteSets, TLC

(***************************************************************************)
(* Bounds of the model.                                                    *)
(***************************************************************************)
\* Player objects constructed on one client.
MaxPlayers == 2
\* disconnect() calls made on one Player.
MaxDisconnects == 1
\* Fields by which a pushed payload deviates from the base snapshot
\* (a field with another value, or a field that is missing).
MaxDelta == 1
\* Entries of one GET /players response.
MaxList == 2
\* Calls of connect, send and delete the caller follows.
MaxCalls == 2

(***************************************************************************)
(* Values.                                                                 *)
(***************************************************************************)
\* Player ids known to the server.
Ids == {"a", "b"}

\* JavaScript's undefined, where an object is expected.
Undefined == [undefined |-> TRUE]

\* The absent lastOnline of a player that has never been online.
Null == -1

\* The keys of the live data, in the order the server writes them.
KeyOrder == <<"health", "hunger", "ping", "gameMode", "coordinates">>

FieldSet == {KeyOrder[i] : i \in 1..Len(KeyOrder)}

\* Two values for every field, as they appear in JSON.
BaseValue ==
    [health |-> 20, hunger |-> 18, ping |-> 40, gameMode |-> "survival",
     coordinates |-> <<0, 64, 0>>]

OtherValue ==
    [health |-> 15, hunger |-> 20, ping |-> 55, gameMode |-> "creative",
     coordinates |-> <<1, 64, 0>>]

\* The JSON object with the keys K whose fields in A take the other value.
Wire(K, A) == [f \in K |-> IF f \in A THEN OtherValue[f] ELSE BaseValue[f]]

\* The JSON payloads of a data push, malformed ones (missing keys) included.
WirePayloads ==
    {Wire(K, A) : <<K, A>> \in
        {ka \in (SUBSET FieldSet) \X (SUBSET FieldSet) :
            /\ ka[2] \subseteq ka[1]
            /\ Cardinality(FieldSet \ ka[1]) + Cardinality(ka[2]) <= MaxDelta}}

\* The live data a response of the API may carry.
Snapshots == {Wire(FieldSet, {}), Wire(FieldSet, FieldSet)}

\* JSON.parse / socket.io decoding: every array is a new object, which the
\* model names by a reference.
Parse(wire, ref) ==
    [f \in DOMAIN wire |->
        IF f = "coordinates" THEN [ref |-> ref, xyz |-> wire[f]] ELSE wire[f]]

\* The JSON value of a parsed object: what a reader of its fields sees.
Plain(obj) ==
    IF obj = Undefined THEN Undefined
    ELSE [f \in DOMAIN obj |-> IF f = "coordinates" THEN obj[f].xyz ELSE obj[f]]

\* obj[key] of JavaScript.
Get(obj, key) == IF key \in DOMAIN obj THEN obj[key] ELSE Undefined

\* a[key] !== b[key] for an own key of a: identity for arrays, value for
\* numbers and strings; a key that b lacks reads undefined.
StrictNe(a, b, key) ==
    IF key \notin DOMAIN b THEN TRUE
    ELSE IF key = "coordinates" THEN a[key].ref # b[key].ref
    ELSE a[key] # b[key]

\* Object.keys(data)
Keys(data) == SelectSeq(KeyOrder, LAMBDA k : k \in DOMAIN data)

\* The chat messages and commands sent and received.
Messages == {"hello", "/spawn"}

\* The value of the server's player record.
NameOf == [a |-> "bob", b |-> "eve@example.com"]

AuthMethodOf == [a |-> "offline", b |-> "microsoft"]

LastOnlineOf == [a |-> 5, b |-> 0]

\* p.lastOnline ? new Date(p.lastOnline) : null
ToDate(t) == IF t # 0 THEN t ELSE Null


(***************************************************************************)
(* State.                                                                  *)
(***************************************************************************)
VARIABLES
    \* The Player objects, in the order of their construction. A Player is
    \* never released: its listeners stay on the socket.
    players,
    \* The OfflinePlayer objects the caller was handed (immutable values).
    offlinePlayers,
    \* The signals emitted on the socket: socketEmits[name][id] counts them.
    socketEmits,
    \* The "data" listeners of the socket, in the order of registration; each
    \* is named by the Player whose constructor registered it (together with
    \* its "chat" listener).
    socketListeners,
    \* The calls of connect, send and delete the caller follows: each with
    \* the requests made for it and the state of its promise.
    calls

vars == <<players, offlinePlayers, socketEmits, socketListeners, calls>>

\* new AltManager.OfflinePlayer(client, p.id, p.name, p.authMethod, lastOnline)
OfflinePlayer(id) ==
    [id |-> id, name |-> NameOf[id], authMethod |-> AuthMethodOf[id],
     lastOnline |-> ToDate(LastOnlineOf[id])]

\* The live data of a response: p.liveData parsed, or undefined when the
\* response has none.
LiveDataOf(live, ref) == IF live = Undefined THEN Undefined ELSE Parse(live, ref)

\* One entry of the player's own history.
Entry(ev, call) == [ev |-> ev, call |-> call]

\* NewPlayer with the assignment of the constructor's liveData left out.
NewPlayer_NoStore(offlinePlayer, liveData, via) ==
    [offlinePlayer |-> offlinePlayer,
     liveData      |-> Undefined,
     origin        |-> [via |-> via, hasLive |-> liveData # Undefined],
     events        |-> <<>>,
     lastPush      |-> <<>>,
     log           |-> <<Entry("subscribe", 0)>>,
     kicked        |-> FALSE,
     lastChat      |-> <<>>]

\* The fields the constructor of Player sets; origin records what constructed
\* it (an entry of a listPlayers or getPlayer response, or connect) and
\* whether the response carried live data.
NewPlayer(offlinePlayer, liveData, via) ==
    [offlinePlayer |-> offlinePlayer,
     liveData      |-> liveData,
     origin        |-> [via |-> via, hasLive |-> liveData # Undefined],
     events        |-> <<>>,
     lastPush      |-> <<>>,
     log           |-> <<Entry("subscribe", 0)>>,
     kicked        |-> FALSE,
     lastChat      |-> <<>>]

\* The array references the players hold in their live data.
RefsOf(obj) ==
    IF obj = Undefined \/ "coordinates" \notin DOMAIN obj THEN {}
    ELSE {obj.coordinates.ref}

UsedRefs(ps) == UNION {RefsOf(ps[i].liveData) : i \in 1..Len(ps)}

\* A reference no live object has: a newly allocated array.
FreshRef(ps) ==
    CHOOSE n \in 0..Len(ps) :
        /\ n \notin UsedRefs(ps)
        /\ \A m \in 0..(n - 1) : m \in UsedRefs(ps)

(***************************************************************************)
(* The "data" listener of a Player.                                        *)
(***************************************************************************)
\* One notification of the Player's event emitter: its name, the value of
\* the argument it carries and the values the accessors return while it is
\* emitted.
Emit(name, arg, seen) == [name |-> name, arg |-> arg, seen |-> Plain(seen)]

\* DetectChanges with the pushed value carried in place of the stored one.
DetectChanges_CarryNew(liveData, data) ==
    LET changed == SelectSeq(Keys(data), LAMBDA k : StrictNe(data, liveData, k))
    IN  [i \in 1..Len(changed) |->
            Emit(changed[i] \o "Change", Get(Plain(data), changed[i]), liveData)]

\* The per-field notifications of the change detection loop.
DetectChanges(liveData, data) ==
    LET changed == SelectSeq(Keys(data), LAMBDA k : StrictNe(data, liveData, k))
    IN  [i \in 1..Len(changed) |->
            Emit(changed[i] \o "Change", Get(Plain(liveData), changed[i]), liveData)]

\* OnData with the assignment to this.liveData left out.
OnData_NoReplace(liveData, data) ==
    IF liveData = Undefined /\ Keys(data) # <<>>
    THEN [threw |-> TRUE, events |-> <<>>, liveData |-> liveData]
    ELSE [threw    |-> FALSE,
          events   |-> DetectChanges(liveData, data)
                           \o <<Emit("change", Plain(liveData), liveData)>>,
          liveData |-> liveData]

\* OnData with the assignment to this.liveData moved between the change
\* detection loop and the "change" notification.
OnData_ReplaceBeforeChange(liveData, data) ==
    IF liveData = Undefined /\ Keys(data) # <<>>
    THEN [threw |-> TRUE, events |-> <<>>, liveData |-> liveData]
    ELSE [threw    |-> FALSE,
          events   |-> DetectChanges(liveData, data)
                           \o <<Emit("change", Plain(liveData), data)>>,
          liveData |-> data]

\* OnData with the assignment to this.liveData moved before the change
\* detection.
OnData_ReplaceFirst(liveData, data) ==
    [threw    |-> FALSE,
     events   |-> DetectChanges(data, data) \o <<Emit("change", Plain(data), data)>>,
     liveData |-> data]

\* The listener run on the stored liveData with the pushed data: what it
\* emits, what it stores, and whether it threw (this.liveData[key] of an
\* undefined liveData is a TypeError, raised before anything is emitted).
OnData(liveData, data) ==
    IF liveData = Undefined /\ Keys(data) # <<>>
    THEN [threw |-> TRUE, events |-> <<>>, liveData |-> liveData]
    ELSE [threw    |-> FALSE,
          events   |-> DetectChanges(liveData, data)
                           \o <<Emit("change", Plain(liveData), liveData)>>,
          liveData |-> data]

\* The socket dispatches one "data" event to its listeners in the order of
\* registration; a listener that throws ends the dispatch.
\* Each player it reaches notes the push in lastPush: the player id the
\* server sent it for and the payload as sent.
RECURSIVE Dispatch(_, _, _, _)
Dispatch(ps, ls, k, msg) ==
    IF k > Len(ls) THEN ps
    ELSE LET i == ls[k]
             r == OnData(ps[i].liveData, msg.data)
             q == [ps EXCEPT ![i].liveData = r.liveData,
                             ![i].events = r.events,
                             ![i].lastPush = <<[id |-> msg.id, data |-> Plain(msg.data)]>>]
         IN  IF r.threw THEN q ELSE Dispatch(q, ls, k + 1, msg)


(***************************************************************************)
(* Construction.                                                           *)
(***************************************************************************)
\* The part of the state a constructor acts on.
Heap == [players |-> players, offlinePlayers |-> offlinePlayers,
         socketEmits |-> socketEmits, socketListeners |-> socketListeners]

\* socket.emit(name, id)
SocketEmit(emits, name, id) == [emits EXCEPT ![name][id] = @ + 1]

\* Construct with the subscribe signal left out.
Construct_NoSubscribe(h, offlinePlayer, liveData, via) ==
    [h EXCEPT
        !.players = Append(@, NewPlayer(offlinePlayer, liveData, via)),
        !.socketListeners = Append(@, Len(h.players) + 1)]

\* new AltManager.Player(offlinePlayer, ..., liveData): stores the live data,
\* emits subscribe(id) and registers the "data" listener.
Construct(h, offlinePlayer, liveData, via) ==
    [h EXCEPT
        !.players = Append(@, NewPlayer(offlinePlayer, liveData, via)),
        !.socketEmits = SocketEmit(@, "subscribe", offlinePlayer.id),
        !.socketListeners = Append(@, Len(h.players) + 1)]

\* One entry of a response: an OfflinePlayer, wrapped in a Player when the
\* entry is online.
FromEntry(h, p, via) ==
    LET offlinePlayer == OfflinePlayer(p.id)
    IN  IF p.online
        THEN Construct(h, offlinePlayer,
                       LiveDataOf(p.liveData, FreshRef(h.players)), via)
        ELSE [h EXCEPT !.offlinePlayers = @ \cup {offlinePlayer}]

\* data.map(...) of listPlayers, entry by entry.
RECURSIVE MapEntries(_, _, _)
MapEntries(h, data, k) ==
    IF k > Len(data) THEN h
    ELSE MapEntries(FromEntry(h, data[k], "entry"), data, k + 1)

\* The entries the server may answer with.
Entries ==
    {e \in [id : Ids, online : BOOLEAN, liveData : Snapshots \cup {Undefined}] :
        ~e.online => e.liveData = Undefined}

\* The answers to GET /players: every player at most once.
ListResponses ==
    {r \in UNION {[1..n -> Entries] : n \in 0..MaxList} :
        \A i, j \in 1..Len(r) : i # j => r[i].id # r[j].id}

Online(data) == Cardinality({i \in 1..Len(data) : data[i].online})

Store(h) ==
    /\ players' = h.players
    /\ offlinePlayers' = h.offlinePlayers
    /\ socketEmits' = h.socketEmits
    /\ socketListeners' = h.socketListeners

(***************************************************************************)
(* Operations.                                                             *)
(***************************************************************************)
Init ==
    /\ players = <<>>
    /\ offlinePlayers = {}
    /\ socketEmits = [n \in {"subscribe", "unsubscribe"} |-> [id \in Ids |-> 0]]
    /\ socketListeners = <<>>
    /\ calls = <<>>

\* AltManager.listPlayers, its request answered with data.
listPlayers(data) ==
    /\ Len(players) + Online(data) <= MaxPlayers
    /\ Store(MapEntries(Heap, data, 1))

\* AltManager.getPlayer, its request answered with data.
getPlayer(data) ==
    /\ Len(players) + Online(<<data>>) <= MaxPlayers
    /\ Store(FromEntry(Heap, data, "entry"))

\* AltManager.createPlayer, its request answered with the new player id.
createPlayer(id) ==
    /\ offlinePlayers' = offlinePlayers \cup {OfflinePlayer(id)}
    /\ UNCHANGED <<players, socketEmits, socketListeners, calls>>

\* The OfflinePlayer objects the caller can reach.
Reachable == offlinePlayers \cup {players[i].offlinePlayer : i \in 1..Len(players)}

\* OfflinePlayer.connect after its await, the request answered with the
\* snapshot of the connected player.
connect(offlinePlayer, liveData) ==
    /\ Len(players) < MaxPlayers
    /\ Store(Construct(Heap, offlinePlayer,
                       LiveDataOf(liveData, FreshRef(players)), "connect"))

\* The numbers of the disconnect() calls made on a player, and of those
\* whose request has not been answered.
Calls(p) == {p.log[j].call : j \in {j \in 1..Len(p.log) : p.log[j].ev = "call"}}

Answered(p) ==
    {p.log[j].call : j \in {j \in 1..Len(p.log) : p.log[j].ev \in {"response", "error"}}}

Requested(p) ==
    {p.log[j].call : j \in {j \in 1..Len(p.log) : p.log[j].ev = "request"}}

\* disconnect with the unsubscribe signal left to the code after the await.
disconnect_RequestFirst(i) ==
    LET k == Cardinality(Calls(players[i])) + 1
    IN  /\ k <= MaxDisconnects
        /\ players' = [players EXCEPT ![i].log =
                          @ \o <<Entry("call", k), Entry("request", k)>>]
        /\ UNCHANGED <<offlinePlayers, socketEmits, socketListeners, calls>>

\* Player.disconnect up to its await: the unsubscribe signal, then the
\* request POST /players/{id}/disconnect.
disconnect(i) ==
    LET k == Cardinality(Calls(players[i])) + 1
    IN  /\ k <= MaxDisconnects
        /\ socketEmits' = SocketEmit(socketEmits, "unsubscribe", players[i].offlinePlayer.id)
        /\ players' = [players EXCEPT ![i].log =
                          @ \o <<Entry("call", k), Entry("unsubscribe", k), Entry("request", k)>>]
        /\ UNCHANGED <<offlinePlayers, socketListeners, calls>>

\* disconnectResolved with lastOnline of the player's OfflinePlayer set to
\* the time of the disconnect.
disconnectResolved_SetLastOnline(i, k) ==
    /\ k \in Requested(players[i]) \ Answered(players[i])
    /\ players' = [players EXCEPT
                      ![i].log = @ \o <<Entry("response", k), Entry("disconnect", k)>>,
                      ![i].offlinePlayer.lastOnline = 9]
    /\ UNCHANGED <<offlinePlayers, socketEmits, socketListeners, calls>>

\* Player.disconnect after its await, the request having succeeded: the
\* "disconnect" notification.
disconnectResolved(i, k) ==
    /\ k \in Requested(players[i]) \ Answered(players[i])
    /\ players' = [players EXCEPT ![i].log =
                      @ \o <<Entry("response", k), Entry("disconnect", k)>>]
    /\ UNCHANGED <<offlinePlayers, socketEmits, socketListeners, calls>>

\* disconnectRejected with the "disconnect" notification emitted all the
\* same.
disconnectRejected_Notify(i, k) ==
    /\ k \in Requested(players[i]) \ Answered(players[i])
    /\ players' = [players EXCEPT ![i].log =
                      @ \o <<Entry("error", k), Entry("disconnect", k)>>]
    /\ UNCHANGED <<offlinePlayers, socketEmits, socketListeners, calls>>

\* Player.disconnect after its await, the request having failed: _fetch
\* throws and the error reaches the caller.
disconnectRejected(i, k) ==
    /\ k \in Requested(players[i]) \ Answered(players[i])
    /\ players' = [players EXCEPT ![i].log = @ \o <<Entry("error", k)>>]
    /\ UNCHANGED <<offlinePlayers, socketEmits, socketListeners, calls>>

\* The socket receives a "data" event the server sent for player id.
data(id, wire) ==
    /\ players' = Dispatch(players, socketListeners, 1,
                           [id |-> id, data |-> Parse(wire, FreshRef(players))])
    /\ UNCHANGED <<offlinePlayers, socketEmits, socketListeners, calls>>

\* The socket receives playerDisconnect(id): no listener is registered for
\* it, so nothing runs; the players of that id are marked as signalled.
playerDisconnect(id) ==
    /\ players' = [i \in 1..Len(players) |->
                      IF players[i].offlinePlayer.id = id
                      THEN [players[i] EXCEPT !.kicked = TRUE] ELSE players[i]]
    /\ UNCHANGED <<offlinePlayers, socketEmits, socketListeners, calls>>

(***************************************************************************)
(* Calls followed from the request to the settling of the promise.         *)
(***************************************************************************)
\* A call up to its await: _fetch has made the one request of the call.
Call(op, this, message) ==
    [op |-> op, this |-> this, message |-> message, state |-> "pending",
     requests |-> 1, player |-> 0, response |-> Undefined]

Pending(op) ==
    {c \in 1..Len(calls) : calls[c].op = op /\ calls[c].state = "pending"}

\* OfflinePlayer.connect up to its await: POST /players/{id}/connect.
connectCall(offlinePlayer) ==
    /\ Len(calls) < MaxCalls
    /\ calls' = Append(calls, Call("connect", offlinePlayer, ""))
    /\ UNCHANGED <<players, offlinePlayers, socketEmits, socketListeners>>

\* OfflinePlayer.connect after its await, the request having succeeded: the
\* Player is constructed from the response and returned.
connectResolved(c, liveData) ==
    /\ c \in Pending("connect")
    /\ connect(calls[c].this, liveData)
    /\ calls' = [calls EXCEPT ![c].state = "resolved",
                              ![c].player = Len(players'),
                              ![c].response = liveData]

\* connectRejected with the request made once more before the error reaches
\* the caller.
connectRejected_Retry(c) ==
    /\ c \in Pending("connect")
    /\ calls' = [calls EXCEPT ![c].state = "rejected", ![c].requests = @ + 1]
    /\ UNCHANGED <<players, offlinePlayers, socketEmits, socketListeners>>

\* OfflinePlayer.connect after its await, the request having failed: _fetch
\* throws and the error reaches the caller.
connectRejected(c) ==
    /\ c \in Pending("connect")
    /\ calls' = [calls EXCEPT ![c].state = "rejected"]
    /\ UNCHANGED <<players, offlinePlayers, socketEmits, socketListeners>>

\* Player.send up to its await: POST /players/{id}/chat.
send(i, message) ==
    /\ Len(calls) < MaxCalls
    /\ calls' = Append(calls, Call("send", [player |-> i], message))
    /\ UNCHANGED <<players, offlinePlayers, socketEmits, socketListeners>>

\* sendSettled with a failed request made once more.
sendSettled_Retry(c, state) ==
    /\ c \in Pending("send")
    /\ calls' = [calls EXCEPT ![c].state = state,
                              ![c].requests = IF state = "rejected" THEN @ + 1 ELSE @]
    /\ UNCHANGED <<players, offlinePlayers, socketEmits, socketListeners>>

\* Player.send after its await: nothing follows the request, whether it
\* succeeded or failed (then the error reaches the caller).
sendSettled(c, state) ==
    /\ c \in Pending("send")
    /\ calls' = [calls EXCEPT ![c].state = state]
    /\ UNCHANGED <<players, offlinePlayers, socketEmits, socketListeners>>

\* OfflinePlayer.delete up to its await: DELETE /players/{id}.
delete(offlinePlayer) ==
    /\ Len(calls) < MaxCalls
    /\ calls' = Append(calls, Call("delete", offlinePlayer, ""))
    /\ UNCHANGED <<players, offlinePlayers, socketEmits, socketListeners>>

\* OfflinePlayer.delete after its await.
deleteSettled(c, state) ==
    /\ c \in Pending("delete")
    /\ calls' = [calls EXCEPT ![c].state = state]
    /\ UNCHANGED <<players, offlinePlayers, socketEmits, socketListeners>>

\* The "chat" listener of a Player: forwards the message.
OnChat(message) == <<[name |-> "chat", arg |-> message]>>

\* The socket receives a "chat" event the server sent for player id: every
\* registered listener runs. Each player notes in lastChat what it emitted
\* and the push it was for.
chat(id, message) ==
    /\ players' = [i \in 1..Len(players) |->
                      IF \E k \in 1..Len(socketListeners) : socketListeners[k] = i
                      THEN [players[i] EXCEPT !.lastChat =
                               <<[id |-> id, message |-> message,
                                  events |-> OnChat(message)]>>]
                      ELSE players[i]]
    /\ UNCHANGED <<offlinePlayers, socketEmits, socketListeners, calls>>

Next ==
    \/ \E d \in ListResponses : listPlayers(d) /\ UNCHANGED calls
    \/ \E d \in Entries : getPlayer(d) /\ UNCHANGED calls
    \/ \E id \in Ids : createPlayer(id)
    \/ \E o \in Reachable, l \in Snapshots : connect(o, l) /\ UNCHANGED calls
    \/ \E i \in 1..Len(players) : disconnect(i)
    \/ \E i \in 1..Len(players), k \in 1..MaxDisconnects : disconnectResolved(i, k)
    \/ \E i \in 1..Len(players), k \in 1..MaxDisconnects : disconnectRejected(i, k)
    \/ \E id \in Ids, w \in Snapshots : data(id, w)

Spec == Init /\ [][Next]_vars

(***************************************************************************)
(* One player, just returned by connect on a created OfflinePlayer, or by  *)
(* getPlayer for an online entry without live data (liveData undefined).   *)
(***************************************************************************)
InitWith(id, liveData) ==
    LET h == Construct([players |-> <<>>,
                        offlinePlayers |->
                            IF liveData = Undefined THEN {} ELSE {OfflinePlayer(id)},
                        socketEmits |-> [n \in {"subscribe", "unsubscribe"} |->
                                            [j \in Ids |-> 0]],
                        socketListeners |-> <<>>],
                       OfflinePlayer(id), LiveDataOf(liveData, 0),
                       IF liveData = Undefined THEN "entry" ELSE "connect")
    IN  /\ players = h.players
        /\ offlinePlayers = h.offlinePlayers
        /\ socketEmits = h.socketEmits
        /\ socketListeners = h.socketListeners
        /\ calls = <<>>

\* The well-formed payloads.
FullPayloads == {w \in WirePayloads : DOMAIN w = FieldSet}

(***************************************************************************)
(* The player and the data pushes the server sends for it, malformed ones  *)
(* included.                                                               *)
(***************************************************************************)
InitChannel == \E id \in Ids, l \in FullPayloads \cup {Undefined} : InitWith(id, l)

NextChannel == \E w \in WirePayloads : data(players[1].offlinePlayer.id, w)

SpecChannel == InitChannel /\ [][NextChannel]_vars

(***************************************************************************)
(* The player and the ways its session ends: disconnect() calls, their     *)
(* requests answered or failing, the socket's playerDisconnect, with data  *)
(* pushes arriving in between.                                             *)
(***************************************************************************)
InitSession == \E id \in Ids, l \in Snapshots : InitWith(id, l)

NextSession ==
    \/ \E i \in 1..Len(players) : disconnect(i)
    \/ \E i \in 1..Len(players), k \in 1..MaxDisconnects : disconnectResolved(i, k)
    \/ \E i \in 1..Len(players), k \in 1..MaxDisconnects : disconnectRejected(i, k)
    \/ \E id \in Ids, w \in Snapshots : data(id, w)
    \/ \E id \in Ids : playerDisconnect(id)

SpecSession == InitSession /\ [][NextSession]_vars

(***************************************************************************)
(* The client with the calls of connect, send and delete followed, and     *)
(* the data and chat pushes of the socket.                                 *)
(***************************************************************************)
NextCalls ==
    \/ \E id \in Ids : createPlayer(id)
    \/ \E o \in Reachable : connectCall(o)
    \/ \E c \in 1..Len(calls), l \in Snapshots : connectResolved(c, l)
    \/ \E c \in 1..Len(calls) : connectRejected(c)
    \/ \E i \in 1..Len(players), m \in Messages : send(i, m)
    \/ \E c \in 1..Len(calls), st \in {"resolved", "rejected"} : sendSettled(c, st)
    \/ \E o \in Reachable : delete(o)
    \/ \E c \in 1..Len(calls), st \in {"resolved", "rejected"} : deleteSettled(c, st)
    \/ \E id \in Ids, w \in Snapshots : data(id, w)
    \/ \E id \in Ids, m \in Messages : chat(id, m)

SpecCalls == Init /\ [][NextCalls]_vars

(***************************************************************************)
(* Every operation that runs with an OfflinePlayer at hand, on its own or  *)
(* as the offlinePlayer of a Player: connect, send, delete, disconnect and *)
(* the listeners of the data and chat pushes. The id, name, authMethod and *)
(* lastOnline fields do not depend on what a push or a response carries,   *)
(* so one payload and one message stand for all.                           *)
(***************************************************************************)
NextIdentity ==
    \/ \E id \in Ids : createPlayer(id)
    \/ \E o \in Reachable : connectCall(o)
    \/ \E c \in 1..Len(calls) : connectResolved(c, Wire(FieldSet, {}))
    \/ \E c \in 1..Len(calls) : connectRejected(c)
    \/ \E i \in 1..Len(players) : send(i, "hello")
    \/ \E c \in 1..Len(calls), st \in {"resolved", "rejected"} : sendSettled(c, st)
    \/ \E o \in Reachable : delete(o)
    \/ \E c \in 1..Len(calls), st \in {"resolved", "rejected"} : deleteSettled(c, st)
    \/ \E id \in Ids : data(id, Wire(FieldSet, FieldSet))
    \/ \E id \in Ids : chat(id, "hello")
    \/ \E i \in 1..Len(players) : disconnect(i)
    \/ \E i \in 1..Len(players), k \in 1..MaxDisconnects : disconnectResolved(i, k)
    \/ \E i \in 1..Len(players), k \in 1..MaxDisconnects : disconnectRejected(i, k)

SpecIdentity == Init /\ [][NextIdentity]_vars

(***************************************************************************)
(* Properties.                                                             *)
(***************************************************************************)
IdOf(p) == p.offlinePlayer.id

\* The names of the entries of a player's history.
Evs(p) == {p.log[j].ev : j \in 1..Len(p.log)}

\* In this step the "data" listener of player i stored or emitted something.
Handled(i) ==
    \/ players'[i].liveData # players[i].liveData
    \/ players'[i].events # players[i].events

\* C1: a data push delivered after disconnect() was called on a player
\* neither alters the values its accessors return nor makes it emit a
\* notification.
C1_FrozenAfterDisconnect ==
    [][\A i \in 1..Len(players) :
          Calls(players[i]) # {} =>
              /\ Plain(players'[i].liveData) = Plain(players[i].liveData)
              /\ ~Handled(i)]_vars

\* C2: for live states P and N, the per-field notifications of a push are
\* those of the fields whose values differ, coordinates compared element by
\* element.
C2_DiffByValue ==
    \A i \in 1..Len(players) :
        LET p == players[i]
            P == p.events[Len(p.events)].arg
            N == p.lastPush[1].data
        IN  (/\ p.events # <<>>
             /\ P # Undefined
             /\ DOMAIN P = FieldSet
             /\ DOMAIN N = FieldSet)
            => {e.name : e \in {p.events[j] : j \in 1..(Len(p.events) - 1)}}
                   = {f \o "Change" : f \in {g \in FieldSet : P[g] # N[g]}}

\* C3: with players of different ids on one client, a data push that belongs
\* to one id neither changes the live data of a player of another id nor
\* makes it emit a notification.
C3_OnlyOwnPushes ==
    [][\A i, j \in 1..Len(players) :
          (/\ IdOf(players[i]) # IdOf(players[j])
           /\ players'[i].lastPush # <<>>
           /\ players'[i].lastPush[1].id = IdOf(players[j]))
          => ~Handled(i)]_vars

\* A player that was constructed with live data: an Active session.
Active(p) == p.origin.hasLive

\* C4: once an Active player has handled the last of the pushes delivered to
\* it, its accessors return exactly the fields of that push.
C4_AccessorsReflectLastPush ==
    \A i \in 1..Len(players) :
        (Active(players[i]) /\ players[i].lastPush # <<>>)
        => Plain(players[i].liveData) = players[i].lastPush[1].data

\* A player has handled a push that changed some of its fields and left
\* others as they were.
C4_Witness ==
    \E i \in 1..Len(players) :
        LET p == players[i]
        IN  /\ Active(p) /\ p.lastPush # <<>> /\ p.events # <<>>
            /\ DOMAIN p.lastPush[1].data = FieldSet
            /\ \E f, g \in FieldSet :
                  /\ p.events[Len(p.events)].arg[f] # p.lastPush[1].data[f]
                  /\ p.events[Len(p.events)].arg[g] = p.lastPush[1].data[g]

\* C5: the listener, run to its end on the stored state P with the pushed
\* state N, emits the per-field notifications (each carrying P[f]), then
\* exactly one "change" carrying P, and only then stores N: every
\* notification is emitted while the accessors still return P.
C5_NotifyThenReplace ==
    [][\A i \in 1..Len(players) :
          Handled(i) =>
              LET P == Plain(players[i].liveData)
                  es == players'[i].events
                  n == Len(es)
              IN  /\ n >= 1
                  /\ es[n].name = "change"
                  /\ es[n].arg = P
                  /\ \A j \in 1..(n - 1) :
                        \E f \in FieldSet :
                            /\ es[j].name = f \o "Change"
                            /\ es[j].arg = Get(P, f)
                  /\ \A j \in 1..n : es[j].seen = P
                  /\ Plain(players'[i].liveData) = players'[i].lastPush[1].data]_vars

\* A player has emitted two per-field notifications and the aggregate one.
C5_Witness ==
    \E i \in 1..Len(players) :
        /\ Len(players[i].events) >= 3
        /\ players[i].events[1].name # "change"
        /\ players[i].events[Len(players[i].events)].name = "change"

\* A player that has emitted subscribe, holds its "data" listener and has
\* not emitted unsubscribe.
Subscribed(i) ==
    /\ "subscribe" \in Evs(players[i])
    /\ "unsubscribe" \notin Evs(players[i])
    /\ \E k \in 1..Len(socketListeners) : socketListeners[k] = i

\* C6: at most one player is subscribed for a player id on one client.
C6_OneSubscriberPerId ==
    \A i, j \in 1..Len(players) :
        (i # j /\ Subscribed(i) /\ Subscribed(j))
        => IdOf(players[i]) # IdOf(players[j])

\* C7: a push that lacks fields leaves the live data of a player either as
\* it was or with the missing fields kept and the present ones taken from
\* the push; no accessor returns undefined.
C7_NoPartialState ==
    [][\A i \in 1..Len(players) :
          LET P == Plain(players[i].liveData)
              Q == Plain(players'[i].liveData)
              N == players'[i].lastPush[1].data
          IN  (/\ Handled(i)
               /\ P # Undefined
               /\ DOMAIN P = FieldSet
               /\ DOMAIN N # FieldSet)
              => /\ DOMAIN Q = FieldSet
                 /\ \/ Q = P
                    \/ Q = [f \in FieldSet |-> IF f \in DOMAIN N THEN N[f] ELSE P[f]]]_vars

\* C8: a player for whose id the socket received playerDisconnect has
\* emitted the "disconnect" notification, and data pushes no longer change
\* its live data.
C8_KickDisconnects ==
    [][\A i \in 1..Len(players) :
          players[i].kicked =>
              /\ "disconnect" \in Evs(players[i])
              /\ Plain(players'[i].liveData) = Plain(players[i].liveData)]_vars

\* The entries named ev of the histories of the players of an id.
Logged(ev, id) ==
    UNION {{<<i, j>> : j \in {j \in 1..Len(players[i].log) : players[i].log[j].ev = ev}}
           : i \in {i \in 1..Len(players) : IdOf(players[i]) = id}}

\* C9: every disconnect() call has emitted unsubscribe(id) exactly once, at
\* the call: the signal is on the socket before the request is made and so
\* before a failure of the request reaches the caller.
C9_UnsubscribeBeforeFailure ==
    /\ \A i \in 1..Len(players) :
          \A k \in Calls(players[i]) :
              LET log == players[i].log
                  at(ev) == {j \in 1..Len(log) : log[j] = Entry(ev, k)}
              IN  /\ Cardinality(at("unsubscribe")) = 1
                  /\ \A u \in at("unsubscribe") :
                        \A j \in at("request") \cup at("error") : u < j
    /\ \A id \in Ids :
          socketEmits["unsubscribe"][id] = Cardinality(Logged("call", id))

\* The request of a disconnect() call has failed.
C9_Witness ==
    \E i \in 1..Len(players) : "error" \in Evs(players[i])

\* C10: an entry of a listPlayers or getPlayer response became a Player
\* only if it was online and carried live data; for the others nothing was
\* subscribed and no listener registered.
C10_UpgradeNeedsLiveData ==
    /\ \A i \in 1..Len(players) :
          players[i].origin.via = "entry" => players[i].origin.hasLive
    /\ \A id \in Ids :
          socketEmits["subscribe"][id]
              = Cardinality({i \in 1..Len(players) : IdOf(players[i]) = id})
    /\ Len(socketListeners) = Len(players)

\* The calls of an operation, and those among them in a state.
CallsOf(op) == {c \in 1..Len(calls) : calls[c].op = op}

Settled(op, state) == {c \in CallsOf(op) : calls[c].state = state}

\* This step is the call of send, or the settling of its promise.
SendStep ==
    \E c \in 1..Len(calls') :
        /\ calls'[c].op = "send"
        /\ (c > Len(calls) \/ calls'[c] # calls[c])

\* C11: a send(message) call makes exactly one request, whether the request
\* succeeds or fails; neither the call nor the settling of its promise
\* changes the live data of a player or makes one emit a notification or a
\* socket signal, whatever pushes arrive in between.
C11_SendOnlyRequests ==
    [][SendStep =>
          /\ \A c \in 1..Len(calls') :
                calls'[c].op = "send" => calls'[c].requests = 1
          /\ players' = players
          /\ socketEmits' = socketEmits
          /\ socketListeners' = socketListeners]_vars

\* The request of a send call has failed, and the player has handled a push
\* since it was constructed.
C11_Witness ==
    \E c \in Settled("send", "rejected") :
        players[calls[c].this.player].lastPush # <<>>

\* C12: the accessors of the Player a connect() call returned, read before
\* the player has handled a data push, return the values of the live data
\* of the response to that call.
C12_AccessorsReturnResponse ==
    \A c \in Settled("connect", "resolved") :
        LET p == players[calls[c].player]
        IN  p.lastPush = <<>> =>
                /\ DOMAIN Plain(p.liveData) = FieldSet
                /\ Plain(p.liveData) = calls[c].response

\* connect() has returned a Player for a response other than the base
\* snapshot, and the player has handled no push.
C12_Witness ==
    \E c \in Settled("connect", "resolved") :
        /\ calls[c].response = Wire(FieldSet, FieldSet)
        /\ players[calls[c].player].lastPush = <<>>
        /\ players[calls[c].player].offlinePlayer = calls[c].this

\* C13: a connect() call makes exactly one request; when the request fails
\* no Player is constructed for the call: the players are those of the calls
\* whose request succeeded, and subscribe signals and listeners are theirs.
C13_FailedConnectConstructsNothing ==
    /\ \A c \in CallsOf("connect") :
          /\ calls[c].requests = 1
          /\ calls[c].state = "resolved" <=> calls[c].player # 0
    /\ Len(players) = Cardinality(Settled("connect", "resolved"))
    /\ \A i \in 1..Len(players) :
          \E c \in Settled("connect", "resolved") : calls[c].player = i
    /\ Len(socketListeners) = Len(players)
    /\ \A id \in Ids :
          socketEmits["subscribe"][id]
              = Cardinality({i \in 1..Len(players) : IdOf(players[i]) = id})

\* The request of one connect() call has failed, that of another succeeded.
C13_Witness ==
    /\ Settled("connect", "rejected") # {}
    /\ Settled("connect", "resolved") # {}
    /\ Len(players) = 1

\* C14: pushes are handled one after the other, each one whole. When a
\* player that has stored the push N1 handles the push N2, every
\* notification carries the value of N1 and is emitted while the accessors
\* return N1, and the step ends with N2 stored: no notification of another
\* push falls in between and no mixture of the states is stored.
C14_PushesSerialized ==
    [][\A i \in 1..Len(players) :
          (/\ Active(players[i])
           /\ players[i].lastPush # <<>>
           /\ DOMAIN players[i].lastPush[1].data = FieldSet
           /\ DOMAIN players'[i].lastPush[1].data = FieldSet
           /\ Handled(i))
          => LET N1 == players[i].lastPush[1].data
                 N2 == players'[i].lastPush[1].data
                 es == players'[i].events
             IN  /\ \A j \in 1..Len(es) :
                       /\ es[j].seen = N1
                       /\ \/ es[j].name = "change" /\ es[j].arg = N1
                          \/ \E f \in FieldSet :
                                /\ es[j].name = f \o "Change"
                                /\ es[j].arg = N1[f]
                 /\ Cardinality({j \in 1..Len(es) : es[j].name = "change"}) = 1
                 /\ Plain(players'[i].liveData) = N2]_vars

\* A player has handled a second push: the array it stores is allocated
\* where the array of the response it was constructed from had been, and
\* the push before the last differed from the last in some field.
C14_Witness ==
    \E i \in 1..Len(players) :
        LET p == players[i]
        IN  /\ Active(p) /\ p.lastPush # <<>>
            /\ DOMAIN p.lastPush[1].data = FieldSet
            /\ p.liveData.coordinates.ref = 0
            /\ Len(p.events) >= 2

\* C15: every notification of a push is emitted while the accessors return
\* the state P stored before the push; they return the pushed state N once
\* the listener has emitted all of them.
C15_ObserversSeeOldState ==
    [][\A i \in 1..Len(players) :
          Handled(i) =>
              /\ \A j \in 1..Len(players'[i].events) :
                    players'[i].events[j].seen = Plain(players[i].liveData)
              /\ Plain(players'[i].liveData) = players'[i].lastPush[1].data]_vars

\* A player has handled a push that changed its state: what the observers
\* of its notifications saw is not what the accessors return now.
C15_Witness ==
    \E i \in 1..Len(players) :
        LET p == players[i]
        IN  /\ p.events # <<>>
            /\ \A j \in 1..Len(p.events) : p.events[j].seen # Plain(p.liveData)
            /\ Plain(p.liveData) = p.lastPush[1].data

\* C16: a chat push makes a player emit exactly one "chat" notification
\* that carries the message as pushed, changes no live data and emits no
\* change notification; when the push is for the id of one player, no
\* player of another id emits a notification for it.
C16_ChatOnlyOwnSession ==
    [][\A i \in 1..Len(players) :
          players'[i].lastChat # players[i].lastChat =>
              LET push == players'[i].lastChat[1]
              IN  /\ push.events = <<[name |-> "chat", arg |-> push.message]>>
                  /\ players'[i].liveData = players[i].liveData
                  /\ players'[i].events = players[i].events
                  /\ \A j \in 1..Len(players) :
                        IdOf(players[j]) = push.id
                        => IdOf(players[i]) = push.id]_vars

\* The players constructed in this step.
Constructed == (Len(players) + 1)..Len(players')

\* C17: the construction of a Player, by connect, listPlayers or getPlayer,
\* emits subscribe(id) exactly once, in the step that constructs it and so
\* before the player handles a data push; the player emits no other
\* subscribe, and its unsubscribe signals come after it.
C17_SubscribeAtConstruction ==
    [][/\ \A id \in Ids :
             socketEmits'["subscribe"][id]
                 = socketEmits["subscribe"][id]
                       + Cardinality({i \in Constructed : IdOf(players'[i]) = id})
       /\ \A i \in Constructed :
             /\ players'[i].lastPush = <<>>
             /\ players'[i].events = <<>>
             /\ players'[i].log = <<Entry("subscribe", 0)>>
       /\ \A i \in 1..Len(players) :
             LET log == players'[i].log
             IN  /\ log[1].ev = "subscribe"
                 /\ \A j \in 2..Len(log) : log[j].ev # "subscribe"
       /\ \A id \in Ids :
             socketEmits'["unsubscribe"][id] > socketEmits["unsubscribe"][id]
             => socketEmits["subscribe"][id] > 0]_vars

\* Players constructed from a response entry and by connect; one has
\* handled a push and emitted unsubscribe.
C17_Witness ==
    \E i, j \in 1..Len(players) :
        /\ players[i].origin.via = "entry"
        /\ players[j].origin.via = "connect"
        /\ \E k \in {i, j} :
              /\ players[k].lastPush # <<>>
              /\ "unsubscribe" \in Evs(players[k])

\* C18: no operation changes the id, name, authMethod or lastOnline of an
\* OfflinePlayer: the ones the caller holds, the ones calls are pending
\* on, and the one a Player holds as its offlinePlayer keep the values they
\* were constructed with, and a Player returned by connect holds the
\* OfflinePlayer connect was called on.
C18_IdentityImmutable ==
    [][/\ \A i \in 1..Len(players) :
             players'[i].offlinePlayer = players[i].offlinePlayer
       /\ \A o \in offlinePlayers : o \in offlinePlayers'
       /\ \A c \in 1..Len(calls) : calls'[c].this = calls[c].this
       /\ \A i \in Constructed : players'[i].offlinePlayer \in Reachable
       /\ \A i \in 1..Len(players') :
             players'[i].offlinePlayer = OfflinePlayer(IdOf(players'[i]))]_vars

\* A player returned by connect has handled a data and a chat push and has
\* been disconnected, and its OfflinePlayer has been deleted.
C18_Witness ==
    \E i \in 1..Len(players) :
        /\ players[i].lastPush # <<>>
        /\ players[i].lastChat # <<>>
        /\ "disconnect" \in Evs(players[i])
        /\ \E c \in Settled("delete", "resolved") :
              calls[c].this = players[i].offlinePlayer

\* C19: within a disconnect() call the unsubscribe signal comes first, then
\* the request, then the "disconnect" notification; the notification is
\* emitted at most once, only after the request has succeeded, and never
\* for a call whose request failed.
C19_DisconnectOrder ==
    \A i \in 1..Len(players) :
        \A k \in Calls(players[i]) :
            LET log == players[i].log
                at(ev) == {j \in 1..Len(log) : log[j] = Entry(ev, k)}
            IN  /\ \A r \in at("request") : \E u \in at("unsubscribe") : u < r
                /\ \A d \in at("disconnect") :
                      \E r \in at("request"), s \in at("response") : r < s /\ s < d
                /\ Cardinality(at("disconnect")) <= 1
                /\ at("error") # {} => at("disconnect") = {}
                /\ at("response") # {} => at("disconnect") # {}

\* A disconnect() call has emitted the "disconnect" notification on a
\* player that has handled a push.
C19_Witness ==
    \E i \in 1..Len(players) :
        /\ "disconnect" \in Evs(players[i])
        /\ players[i].lastPush # <<>>

====
